---------------------------- MODULE Spec2Model ----------------------------
(***************************************************************************)
(* A model of mlproject: the training harness of models.py (run_training,  *)
(* validate_after_epoch, compute_loss, compute_accuracy) and the dataset   *)
(* layer of datasets.py (class mapping, eager and lazy datasets, CSV       *)
(* persistence, image projection).                                         *)
(*                                                                         *)
(* Numbers.  Python floats are modelled as exact rationals <<n, d>> in     *)
(* lowest terms; a division by a zero tensor element yields the IEEE       *)
(* values NaN or Inf, a division by the Python int 0 raises                *)
(* ZeroDivisionError.  The network itself is abstracted: its parameters    *)
(* are the table of class scores they compute.  The cross-entropy term of  *)
(* one sample, -log softmax(out)[label] = log sum_c e^(out[c]-out[label]), *)
(* is kept in closed form as the bag of the exponents out[c]-out[label],   *)
(* and a loss is the sum of such terms with rational coefficients, as the  *)
(* means over a batch and over the batches produce them.                   *)
(***************************************************************************)
EXTENDS Integers, Sequences, FiniteSets, TLC

VARIABLES
    \* ---- training harness (models.py) ----
    input_dim,      \* in_features of the model's first layer
    params,         \* the model's parameters (self.parameters())
    training,       \* torch.nn.Module.training, set by train() / eval()
    device,         \* <<self.device>>, an attribute only NNBaseModel.to() sets
    train_dataset,  \* argument of run_training
    test_dataset,   \* argument of run_training
    epochs,         \* argument of run_training
    pc,             \* position in run_training / validate_after_epoch
    epoch,          \* the loop variable of "for epoch in range(epochs)"
    batches,        \* what is left of the current iteration of train_loader
    exp_result,     \* the NeuralNetworkExperimentResult of the run
    frame,          \* locals of _validate_after_epoch that outlive a statement
    returned,       \* what run_training returned
    error,          \* the exception that left run_training / validate_after_epoch
    caller,         \* who called validate_after_epoch
    calls,          \* number of calls of validate_after_epoch made so far
    \* ---- eager dataset (datasets.py, HumanChatBotDataset) ----
    df,             \* the DataFrame handed to the constructor
    mapping,        \* what find_classnum_mapping returned, with its argument
    eager,          \* the constructed HumanChatBotDataset
    file,           \* the CSV file save() wrote
    loaded,         \* the HumanChatBotDataset load() returned
    \* ---- lazy dataset (datasets.py, LazyHumanChatBotDataset) ----
    lazy_args,      \* data and article_type_to_classnum given to the constructor
    lazy,           \* the constructed LazyHumanChatBotDataset
    lazy_error,     \* the exception its construction or an item access raised
    lazy_item,      \* the items __getitem__ has returned
    \* ---- image projection (datasets.py) ----
    embedding,      \* argument of get_embedding_as_image_tensor
    image,          \* its result
    \* ---- the statements of one mini-batch (models.py, run_training) ----
    step,           \* the statement of the batch loop body that runs next
    log,            \* the statements run so far: epoch, batch and operation
    \* ---- image dataset (datasets.py, ImageByCrossMultiplicationDataset) ----
    image_ds_args,  \* human_chatbot_ds, resize and precompute given to the constructor
    image_ds,       \* the object, from the moment __post_init__ runs on it
    image_ds_ctl,   \* where its construction stands, and the exception raised
    image_item,     \* what __getitem__ returned last
    \* ---- eager datasets from raw data (datasets.py, from_raw_data) ----
    raw_args,       \* the frames of the train and the test RawHumanChatBotData
    embed_calls,    \* the texts the embedder was called with, in order
    built,          \* what from_raw_data / from_train_test_raw_data returned
    \* ---- image export (datasets.py, convert_and_save) ----
    export_ds,      \* the dataset given to convert_and_save
    fs,             \* the directories and the files under root_save_path
    export_ctl,     \* where convert_and_save stands, and the exception raised
    writes,         \* the paths image.save() has written, in order
    \* ---- compute_accuracy called on its own (models.py) ----
    accuracy_args,  \* the model's parameters and width, the loader, its order
    accuracy_out    \* what compute_accuracy returned or raised

harness_vars == <<input_dim, params, training, device, train_dataset, test_dataset,
                  epochs, pc, epoch, batches, exp_result, frame, returned,
                  error, caller, calls>>

dataset_vars == <<df, mapping, eager, file, loaded>>

lazy_vars == <<lazy_args, lazy, lazy_error, lazy_item>>

image_vars == <<embedding, image>>

trace_vars == <<step, log>>

imageds_vars == <<image_ds_args, image_ds, image_ds_ctl, image_item>>

raw_vars == <<raw_args, embed_calls, built>>

export_vars == <<export_ds, fs, export_ctl, writes>>

accuracy_vars == <<accuracy_args, accuracy_out>>

extension_vars == <<trace_vars, imageds_vars, raw_vars, export_vars, accuracy_vars>>

(* What the statements of the batch loop and the image dataset leave alone. *)
outside_trace == <<dataset_vars, lazy_vars, image_vars, imageds_vars, raw_vars, export_vars,
                   accuracy_vars>>
outside_imageds == <<harness_vars, dataset_vars, lazy_vars, image_vars, trace_vars, raw_vars,
                     export_vars, accuracy_vars>>
outside_raw == <<harness_vars, dataset_vars, lazy_vars, image_vars, trace_vars, imageds_vars,
                 export_vars, accuracy_vars>>
outside_export == <<harness_vars, dataset_vars, lazy_vars, image_vars, trace_vars,
                    imageds_vars, raw_vars, accuracy_vars>>
outside_accuracy == <<harness_vars, dataset_vars, lazy_vars, image_vars, trace_vars,
                      imageds_vars, raw_vars, export_vars>>

vars == <<harness_vars, dataset_vars, lazy_vars, image_vars, extension_vars>>

---------------------------------------------------------------------------
(* Bounds of the model *)

MaxEpochs == 2
ShortLen == 1
LongLen == 33
MaxPhase == 1
MaxRot == 1
MaxDim == 2
MaxCalls == 2
MaxRows == 2
MaxVec == 3
MaxItems == 2

(* Program constants *)

training_batch_size == 32
test_batch_size == 32

Classes == {0, 1}
Features == {0, 1}
NoError == [type |-> "none", at |-> "none"]

---------------------------------------------------------------------------
(* Exact arithmetic standing for Python floats.  An intermediate value is  *)
(* bound by CHOOSE v \in {e(x) : x \in {arg}} so that it is evaluated once.  *)

RECURSIVE Gcd(_, _)
Gcd(a, b) == IF b = 0 THEN a ELSE CHOOSE g \in {Gcd(b, r) : r \in {a % b}} : TRUE

Rat(n, d) ==
    CHOOSE q \in {<<x \div g, y \div g>> : <<x, y, g>> \in {<<n, d, Gcd(n, d)>>}} : TRUE

RatAdd(p, q) ==
    CHOOSE r \in {Rat(a[1] * b[2] + b[1] * a[2], a[2] * b[2]) : <<a, b>> \in {<<p, q>>}} : TRUE

RatDivInt(p, k) == CHOOSE r \in {Rat(a[1], a[2] * k) : a \in {p}} : TRUE

RECURSIVE SumSeq(_)
SumSeq(s) == IF s = <<>> THEN 0 ELSE CHOOSE n \in {Head(t) + SumSeq(Tail(t)) : t \in {s}} : TRUE

Min(a, b) == IF a < b THEN a ELSE b

Range(seq) == {seq[i] : i \in 1 .. Len(seq)}

---------------------------------------------------------------------------
(* Datasets as the harness sees them: HumanChatBotDataset.__len__,         *)
(* __getitem__ and embedding_size.  A row is (feature vector, label).      *)

Sample(k, dim) ==
    [features |-> [j \in 1 .. dim |-> IF k % 3 = 0 THEN 1 ELSE 0],
     label |-> k % 2]

PatternDataset(n, phase, dim) ==
    [rows |-> [i \in 1 .. n |-> Sample(i + phase, dim)], embedding_size |-> dim]

Lens == (0 .. ShortLen) \cup {LongLen}

TrainDatasets ==
    {PatternDataset(n, ph, d) : n \in Lens \ {0}, ph \in 0 .. MaxPhase, d \in 1 .. MaxDim}

TestDatasets ==
    {PatternDataset(n, ph, d) : n \in Lens, ph \in 0 .. MaxPhase, d \in 1 .. MaxDim}

DatasetLen(ds) == Len(ds.rows)

GetItem(ds, idx) == ds.rows[idx]

---------------------------------------------------------------------------
(* torch.utils.data.DataLoader as run_training configures it: batches of   *)
(* batch_size in index order, or in a fresh random order for every         *)
(* iteration when shuffle is set; the last batch may be short.             *)

DataLoader(ds, batch_size, shuffle) ==
    [dataset |-> ds, batch_size |-> batch_size, shuffle |-> shuffle]

LoaderLen(loader) ==
    (DatasetLen(loader.dataset) + loader.batch_size - 1) \div loader.batch_size

Rotation(n, r) == [i \in 1 .. n |-> ((i - 1 + r) % n) + 1]

Orders(loader) ==
    LET n == DatasetLen(loader.dataset)
    IN  IF loader.shuffle
        THEN {Rotation(n, r) : r \in 0 .. MaxRot}
        ELSE {Rotation(n, 0)}

(* Mutant: the loader yields the whole split as one batch. *)
Chunks_unbatched(s, size) == IF s = <<>> THEN <<>> ELSE <<s>>

RECURSIVE Chunks(_, _)
Chunks(s, size) ==
    IF s = <<>> THEN <<>>
    ELSE CHOOSE c \in {<<SubSeq(t, 1, Min(size, Len(t)))>>
                         \o Chunks(SubSeq(t, Min(size, Len(t)) + 1, Len(t)), size) : t \in {s}} : TRUE

Iterate(loader, order) ==
    CHOOSE bs \in {Chunks(items, loader.batch_size) :
                      items \in {[i \in 1 .. Len(order) |-> GetItem(loader.dataset, order[i])]}} : TRUE

train_loader == DataLoader(train_dataset, training_batch_size, TRUE)
test_loader == DataLoader(test_dataset, test_batch_size, FALSE)

---------------------------------------------------------------------------
(* The network.  Parameters are the score table they compute; forward      *)
(* raises when the width of the batch is not the model's input width.      *)

ParamSet ==
    { [x \in Features |-> [c \in Classes |-> IF c = x THEN 1 ELSE 0]],
      [x \in Features |-> [c \in Classes |-> 0]],
      [x \in Features |-> [c \in Classes |-> IF c = 1 THEN 2 - x ELSE x]] }

ForwardRaises(dim, batch) == \E i \in 1 .. Len(batch) : Len(batch[i].features) # dim

Forward(p, features) == p[features[1]]

MaxScore(out) == CHOOSE m \in {out[c] : c \in Classes} : \A c \in Classes : out[c] <= m

Argmax(out) == CHOOSE c \in Classes : out[c] = MaxScore(out) /\ \A d \in Classes : d < c => out[d] < out[c]

(* -log softmax(out)[label], the logarithm of the sum of e^v over the bag  *)
(* of exponents v = out[c] - out[label]; the bag stands for that number.   *)
CrossEntropyTerm(out, label) ==
    [v \in {out[c] - out[label] : c \in Classes} |->
        Cardinality({c \in Classes : out[c] - out[label] = v})]

(* A float that is a sum of cross-entropy terms: term -> coefficient. *)
ZeroLoss == [t \in {} |-> <<0, 1>>]

LossAdd(a, b) ==
    [t \in (DOMAIN a) \cup (DOMAIN b) |->
        RatAdd(IF t \in DOMAIN a THEN a[t] ELSE <<0, 1>>,
               IF t \in DOMAIN b THEN b[t] ELSE <<0, 1>>)]

LossDivInt(a, k) == [t \in DOMAIN a |-> RatDivInt(a[t], k)]

(* torch.nn.CrossEntropyLoss(): the mean of the terms of the batch. *)
Criterion(p, batch) ==
    CHOOSE mean \in
      { [t \in Range(terms) |->
           Rat(Cardinality({i \in 1 .. Len(terms) : terms[i] = t}), Len(terms))]
        : terms \in {[i \in 1 .. Len(batch) |->
                        CrossEntropyTerm(Forward(p, batch[i].features), batch[i].label)]} } : TRUE

---------------------------------------------------------------------------
(* NNBaseModel.compute_loss and compute_accuracy, for one iteration order  *)
(* of the loader.  Each yields [error, value]: error is the exception      *)
(* raised, "none" when the call returns.  dev is self.device, <<>> when    *)
(* the attribute is not set: the first batch then raises AttributeError.   *)

RECURSIVE LossSum(_, _)
LossSum(p, bs) ==
    IF bs = <<>> THEN ZeroLoss
    ELSE LossAdd(Criterion(p, Head(bs)), LossSum(p, Tail(bs)))

compute_loss(loader, order, p, dim, dev) ==
    CHOOSE r \in
      { IF bs # <<>> /\ dev = <<>>
        THEN [error |-> "AttributeError", value |-> ZeroLoss]
        ELSE IF \E b \in 1 .. Len(bs) : ForwardRaises(dim, bs[b])
        THEN [error |-> "RuntimeError", value |-> ZeroLoss]
        ELSE IF LoaderLen(loader) = 0
        THEN [error |-> "ZeroDivisionError", value |-> ZeroLoss]
        ELSE [error |-> "none", value |-> LossDivInt(LossSum(p, bs), LoaderLen(loader))]
        : bs \in {Iterate(loader, order)} } : TRUE

EmptyDict == [k \in {} |-> 0]

(* Mutant: make_up[i][j] = 1 instead of += 1. *)
Increment_assign(make_up, i, j) ==
    CHOOSE r \in
      { [k \in (DOMAIN m) \cup {i} |->
           IF k = i
           THEN [l \in (DOMAIN inner) \cup {j} |-> IF l = j THEN 1 ELSE inner[l]]
           ELSE m[k]]
        : <<m, inner>> \in {<<make_up, IF i \in DOMAIN make_up THEN make_up[i] ELSE EmptyDict>>} } : TRUE

Increment(make_up, i, j) ==
    CHOOSE r \in
      { [k \in (DOMAIN m) \cup {i} |->
           IF k = i
           THEN [l \in (DOMAIN inner) \cup {j} |->
                   IF l = j THEN (IF j \in DOMAIN inner THEN inner[j] ELSE 0) + 1 ELSE inner[l]]
           ELSE m[k]]
        : <<m, inner>> \in {<<make_up, IF i \in DOMAIN make_up THEN make_up[i] ELSE EmptyDict>>} } : TRUE

RECURSIVE CountSamples(_, _, _)
CountSamples(p, samples, acc) ==
    IF samples = <<>> THEN acc
    ELSE CHOOSE r \in
           { CountSamples(p, Tail(samples),
                 [correct |-> a.correct + (IF predicted = label THEN 1 ELSE 0),
                  make_up |-> Increment(a.make_up, predicted, label)])
             : <<a, predicted, label>> \in
                 {<<acc, Argmax(Forward(p, Head(samples).features)), Head(samples).label>>} } : TRUE

RECURSIVE CountBatches(_, _, _)
CountBatches(p, bs, acc) ==
    IF bs = <<>> THEN acc
    ELSE CHOOSE r \in {CountBatches(p, Tail(bs), a) : a \in {CountSamples(p, Head(bs), acc)}} : TRUE

NoAccuracy == [correct |-> 0, total_items |-> 0, accuracy |-> <<0, 1>>, make_up |-> EmptyDict]

compute_accuracy(loader, order, p, dim, dev) ==
    CHOOSE r \in
      { IF bs # <<>> /\ dev = <<>>
        THEN [error |-> "AttributeError", value |-> NoAccuracy]
        ELSE IF \E b \in 1 .. Len(bs) : ForwardRaises(dim, bs[b])
        THEN [error |-> "RuntimeError", value |-> NoAccuracy]
        ELSE CHOOSE ok \in
          { IF total_items = 0
            THEN [error |-> "ZeroDivisionError", value |-> NoAccuracy]
            ELSE [error |-> "none",
                  value |-> [correct |-> acc.correct, total_items |-> total_items,
                             accuracy |-> Rat(acc.correct, total_items),
                             make_up |-> acc.make_up]]
            : <<acc, total_items>> \in
                {<<CountBatches(p, bs, [correct |-> 0, make_up |-> EmptyDict]),
                   DatasetLen(loader.dataset)>>} } : TRUE
        : bs \in {Iterate(loader, order)} } : TRUE

---------------------------------------------------------------------------
(* NNBaseModel.validation_context: eval() on entry, train() in the finally *)
(* clause, whether the body raised or returned.  Each yields the new       *)
(* value of self.training.                                                 *)

validation_context_enter == FALSE

(* Mutant: train() after the body instead of in a finally clause. *)
validation_context_exit_no_finally(raised) == ~raised

validation_context_exit(raised) == TRUE

---------------------------------------------------------------------------
(* The experiment record.  Its class is not part of the sources at hand;   *)
(* the six series start empty and run_training sets the metadata.          *)

NeuralNetworkExperimentResult(n_epochs, batch_size) ==
    [epochs |-> n_epochs,
     training_batch_size |-> batch_size,
     training_losses |-> <<>>,
     training_accuracies |-> <<>>,
     testing_losses |-> <<>>,
     testing_accuracies |-> <<>>,
     training_classification_results |-> <<>>,
     testing_classification_results |-> <<>>]

NoFrame == [tr_make_up |-> EmptyDict, test_make_up |-> EmptyDict]

---------------------------------------------------------------------------
(* run_training (LogisticRegression, SimpleMLP, CNN2D and CNNLstm share    *)
(* the same loop) and validate_after_epoch.                                *)

(* Parts of the program a specification leaves out stay as they are. *)
None == <<>>

IdleHarness ==
    /\ input_dim = 0 /\ params = None /\ training = TRUE /\ device = None
    /\ train_dataset = None
    /\ test_dataset = None /\ epochs = 0 /\ pc = "unused" /\ epoch = 0
    /\ batches = None /\ exp_result = None /\ frame = None /\ returned = None
    /\ error = None /\ caller = "none" /\ calls = 0

IdleDataset == df = None /\ mapping = None /\ eager = None /\ file = None /\ loaded = None

IdleLazy == lazy_args = None /\ lazy = None /\ lazy_error = "none" /\ lazy_item = None

IdleImage == embedding = None /\ image = None

IdleTrace == step = "zero_grad" /\ log = <<>>

IdleImageDs ==
    image_ds_args = None /\ image_ds = None /\ image_ds_ctl = None /\ image_item = None

IdleRaw == raw_args = None /\ embed_calls = None /\ built = None

IdleExport == export_ds = None /\ fs = None /\ export_ctl = None /\ writes = None

IdleAccuracy == accuracy_args = None /\ accuracy_out = None

IdleExtension == IdleTrace /\ IdleImageDs /\ IdleRaw /\ IdleExport /\ IdleAccuracy

Raise(type, at) ==
    /\ error' = [type |-> type, at |-> at]
    /\ pc' = "raised"

RangeHasNext(i, n) == i < n

Devices == {"cpu"}

(* The model as its constructor leaves it, self.device not set, and the    *)
(* arguments of the call to come.                                          *)
InitHarness ==
    /\ input_dim \in 1 .. MaxDim
    /\ params \in ParamSet
    /\ training = TRUE
    /\ device = None
    /\ train_dataset \in TrainDatasets
    /\ test_dataset \in TestDatasets
    /\ epochs \in 0 .. MaxEpochs
    /\ epoch = 0
    /\ batches = <<>>
    /\ frame = NoFrame
    /\ returned = <<>>
    /\ error = NoError
    /\ calls = 0

(* NNBaseModel.to(device), called by the client between two calls. *)
To ==
    /\ pc \in {"constructed", "idle"}
    /\ device' \in {<<d>> : d \in Devices}
    /\ UNCHANGED <<input_dim, params, training, train_dataset, test_dataset, epochs, pc,
                   epoch, batches, exp_result, frame, returned, error, caller, calls>>
    /\ UNCHANGED <<dataset_vars, lazy_vars, image_vars, extension_vars>>

(* run_training is called: the loaders and the record are constructed. *)
RunTraining ==
    /\ pc = "constructed"
    /\ exp_result' = NeuralNetworkExperimentResult(epochs, training_batch_size)
    /\ pc' = "for_epoch"
    /\ UNCHANGED <<input_dim, device, params, training, train_dataset, test_dataset, epochs,
                   epoch, batches, frame, returned, error, caller, calls>>
    /\ UNCHANGED <<dataset_vars, lazy_vars, image_vars, extension_vars>>

(* for epoch in tqdm(range(epochs)): the next epoch starts a fresh,        *)
(* reshuffled iteration of train_loader.                                   *)
ForEpoch ==
    /\ pc = "for_epoch"
    /\ RangeHasNext(epoch, epochs)
    /\ \E order \in Orders(train_loader) : batches' = Iterate(train_loader, order)
    /\ pc' = "for_batch"
    /\ UNCHANGED <<input_dim, device, params, training, train_dataset, test_dataset, epochs,
                   epoch, exp_result, frame, returned, error, caller, calls>>
    /\ UNCHANGED <<dataset_vars, lazy_vars, image_vars, extension_vars>>

(* One mini-batch: to(self.device), zero_grad, forward, loss, backward,   *)
(* optimizer.step().                                                       *)
TrainStep ==
    /\ pc = "for_batch"
    /\ batches # <<>>
    /\ IF device = None
       THEN /\ Raise("AttributeError", "TrainStep")
            /\ UNCHANGED <<params, batches>>
       ELSE IF ForwardRaises(input_dim, Head(batches))
       THEN /\ Raise("RuntimeError", "TrainStep")
            /\ UNCHANGED <<params, batches>>
       ELSE /\ params' \in ParamSet
            /\ batches' = Tail(batches)
            /\ UNCHANGED <<pc, error>>
    /\ UNCHANGED <<input_dim, device, training, train_dataset, test_dataset, epochs, epoch,
                   exp_result, frame, returned, caller, calls>>
    /\ UNCHANGED <<dataset_vars, lazy_vars, image_vars, extension_vars>>

(* validate_after_epoch entered: the with statement runs eval(). *)
EnterValidation ==
    /\ training' = validation_context_enter
    /\ calls' = calls + 1
    /\ pc' = "training_loss"
    /\ UNCHANGED <<input_dim, device, params, train_dataset, test_dataset, epochs, epoch,
                   batches, exp_result, frame, returned, error, caller>>
    /\ UNCHANGED <<dataset_vars, lazy_vars, image_vars, extension_vars>>

CallValidate ==
    /\ pc = "for_batch"
    /\ batches = <<>>
    /\ EnterValidation

(* An exception inside the with block: the finally clause runs, then the   *)
(* exception leaves validate_after_epoch and run_training.                 *)
RaiseInValidation(type, at) ==
    /\ Raise(type, at)
    /\ training' = validation_context_exit(TRUE)
    /\ UNCHANGED <<exp_result, frame, epoch>>

TrainingLoss ==
    /\ pc = "training_loss"
    /\ \E order \in Orders(train_loader) :
       \E r \in {compute_loss(train_loader, order, params, input_dim, device)} :
             IF r.error # "none"
             THEN RaiseInValidation(r.error, "compute_loss")
             ELSE /\ exp_result' = [exp_result EXCEPT !.training_losses = Append(@, r.value)]
                  /\ pc' = "training_accuracy"
                  /\ UNCHANGED <<training, frame, epoch, error>>
    /\ UNCHANGED <<input_dim, device, params, train_dataset, test_dataset, epochs, batches,
                   returned, caller, calls>>
    /\ UNCHANGED <<dataset_vars, lazy_vars, image_vars, extension_vars>>

TrainingAccuracy ==
    /\ pc = "training_accuracy"
    /\ \E order \in Orders(train_loader) :
       \E r \in {compute_accuracy(train_loader, order, params, input_dim, device)} :
             IF r.error # "none"
             THEN RaiseInValidation(r.error, "compute_accuracy")
             ELSE /\ exp_result' = [exp_result EXCEPT
                                      !.training_accuracies = Append(@, r.value.accuracy)]
                  /\ frame' = [frame EXCEPT !.tr_make_up = r.value.make_up]
                  /\ pc' = "testing_loss"
                  /\ UNCHANGED <<training, epoch, error>>
    /\ UNCHANGED <<input_dim, device, params, train_dataset, test_dataset, epochs, batches,
                   returned, caller, calls>>
    /\ UNCHANGED <<dataset_vars, lazy_vars, image_vars, extension_vars>>

TestingLoss ==
    /\ pc = "testing_loss"
    /\ \E order \in Orders(test_loader) :
       \E r \in {compute_loss(test_loader, order, params, input_dim, device)} :
             IF r.error # "none"
             THEN RaiseInValidation(r.error, "compute_loss")
             ELSE /\ exp_result' = [exp_result EXCEPT !.testing_losses = Append(@, r.value)]
                  /\ pc' = "testing_accuracy"
                  /\ UNCHANGED <<training, frame, epoch, error>>
    /\ UNCHANGED <<input_dim, device, params, train_dataset, test_dataset, epochs, batches,
                   returned, caller, calls>>
    /\ UNCHANGED <<dataset_vars, lazy_vars, image_vars, extension_vars>>

TestingAccuracy ==
    /\ pc = "testing_accuracy"
    /\ \E order \in Orders(test_loader) :
       \E r \in {compute_accuracy(test_loader, order, params, input_dim, device)} :
             IF r.error # "none"
             THEN RaiseInValidation(r.error, "compute_accuracy")
             ELSE /\ exp_result' = [exp_result EXCEPT
                                      !.testing_accuracies = Append(@, r.value.accuracy)]
                  /\ frame' = [frame EXCEPT !.test_make_up = r.value.make_up]
                  /\ pc' = "classification_results"
                  /\ UNCHANGED <<training, epoch, error>>
    /\ UNCHANGED <<input_dim, device, params, train_dataset, test_dataset, epochs, batches,
                   returned, caller, calls>>
    /\ UNCHANGED <<dataset_vars, lazy_vars, image_vars, extension_vars>>

(* The two confusion breakdowns are appended, _validate_after_epoch        *)
(* returns, the with block is left and control is back with the caller.    *)
ClassificationResults ==
    /\ pc = "classification_results"
    /\ exp_result' = [exp_result EXCEPT
                        !.training_classification_results = Append(@, frame.tr_make_up),
                        !.testing_classification_results = Append(@, frame.test_make_up)]
    /\ frame' = NoFrame
    /\ training' = validation_context_exit(FALSE)
    /\ IF caller = "run_training"
       THEN epoch' = epoch + 1 /\ pc' = "for_epoch"
       ELSE epoch' = epoch /\ pc' = "idle"
    /\ UNCHANGED <<input_dim, device, params, train_dataset, test_dataset, epochs, batches,
                   returned, error, caller, calls>>
    /\ UNCHANGED <<dataset_vars, lazy_vars, image_vars, extension_vars>>

Return ==
    /\ pc = "for_epoch"
    /\ ~RangeHasNext(epoch, epochs)
    /\ returned' = <<exp_result>>
    /\ pc' = "done"
    /\ UNCHANGED <<input_dim, device, params, training, train_dataset, test_dataset, epochs,
                   epoch, batches, exp_result, frame, error, caller, calls>>
    /\ UNCHANGED <<dataset_vars, lazy_vars, image_vars, extension_vars>>

Init ==
    /\ InitHarness
    /\ exp_result = None
    /\ pc = "constructed"
    /\ caller = "run_training"
    /\ IdleDataset /\ IdleLazy /\ IdleImage /\ IdleExtension

Next ==
    \/ To
    \/ RunTraining
    \/ ForEpoch
    \/ TrainStep
    \/ CallValidate
    \/ TrainingLoss
    \/ TrainingAccuracy
    \/ TestingLoss
    \/ TestingAccuracy
    \/ ClassificationResults
    \/ Return

Spec == Init /\ [][Next]_vars

(* The run is one sequential thread: a step that can be taken is taken. *)
FairSpec == Spec /\ WF_vars(Next)

---------------------------------------------------------------------------
(* validate_after_epoch called directly, several times in a row, with the  *)
(* loaders and the record run_training builds and no training step in      *)
(* between.                                                                *)

InitEval ==
    /\ InitHarness
    /\ exp_result = NeuralNetworkExperimentResult(epochs, training_batch_size)
    /\ pc = "idle"
    /\ caller = "client"
    /\ IdleDataset /\ IdleLazy /\ IdleImage /\ IdleExtension

ClientValidate ==
    /\ pc = "idle"
    /\ calls < MaxCalls
    /\ EnterValidation

NextEval ==
    \/ To
    \/ ClientValidate
    \/ TrainingLoss
    \/ TrainingAccuracy
    \/ TestingLoss
    \/ TestingAccuracy
    \/ ClassificationResults

SpecEval == InitEval /\ [][NextEval]_vars

---------------------------------------------------------------------------
(* run_training with the body of the batch loop taken one statement at a   *)
(* time.  The testing split is a single sample of the model's width.       *)

Ops == <<"zero_grad", "forward", "loss", "backward", "optimizer_step">>

Logged(op) ==
    Append(log, [epoch |-> epoch,
                 index |-> LoaderLen(train_loader) - Len(batches) + 1,
                 batch |-> Head(batches),
                 op |-> op])

InitTrain ==
    /\ InitHarness
    /\ test_dataset = PatternDataset(1, 0, input_dim)
    /\ exp_result = None
    /\ pc = "constructed"
    /\ caller = "run_training"
    /\ IdleTrace
    /\ IdleDataset /\ IdleLazy /\ IdleImage /\ IdleImageDs /\ IdleRaw /\ IdleExport /\ IdleAccuracy

(* for epoch in range(epochs): for ... in enumerate(train_loader): *)
StartEpoch ==
    /\ pc = "for_epoch"
    /\ RangeHasNext(epoch, epochs)
    /\ \E order \in Orders(train_loader) : batches' = Iterate(train_loader, order)
    /\ pc' = "for_batch"
    /\ step' = "zero_grad"
    /\ log' = <<>>
    /\ UNCHANGED <<input_dim, device, params, training, train_dataset, test_dataset, epochs,
                   epoch, exp_result, frame, returned, error, caller, calls>>
    /\ UNCHANGED outside_trace

(* A statement of the loop body that leaves the parameters alone. *)
Statement(op, next) ==
    /\ pc = "for_batch"
    /\ batches # <<>>
    /\ step = op
    /\ step' = next
    /\ log' = Logged(op)
    /\ UNCHANGED <<harness_vars, outside_trace>>

(* text_vectors.to(self.device); text_labels.to(self.device);             *)
(* optimizer.zero_grad()                                                   *)
ZeroGrad ==
    /\ pc = "for_batch"
    /\ batches # <<>>
    /\ step = "zero_grad"
    /\ IF device = None
       THEN /\ Raise("AttributeError", "TrainStep")
            /\ UNCHANGED <<step, log>>
       ELSE /\ step' = "forward"
            /\ log' = Logged("zero_grad")
            /\ UNCHANGED <<pc, error>>
    /\ UNCHANGED <<input_dim, device, params, training, train_dataset, test_dataset, epochs,
                   epoch, batches, exp_result, frame, returned, caller, calls>>
    /\ UNCHANGED outside_trace

(* outputs = self(text_vectors) *)
ForwardPass ==
    /\ pc = "for_batch"
    /\ batches # <<>>
    /\ step = "forward"
    /\ IF ForwardRaises(input_dim, Head(batches))
       THEN /\ Raise("RuntimeError", "TrainStep")
            /\ UNCHANGED <<step, log>>
       ELSE /\ step' = "loss"
            /\ log' = Logged("forward")
            /\ UNCHANGED <<pc, error>>
    /\ UNCHANGED <<input_dim, device, params, training, train_dataset, test_dataset, epochs,
                   epoch, batches, exp_result, frame, returned, caller, calls>>
    /\ UNCHANGED outside_trace

(* loss = criterion(outputs, text_labels) *)
LossStatement == Statement("loss", "backward")

(* loss.backward() *)
Backward == Statement("backward", "optimizer_step")

(* optimizer.step(); the loop goes on to the next mini-batch. *)
OptimizerStep ==
    /\ pc = "for_batch"
    /\ batches # <<>>
    /\ step = "optimizer_step"
    /\ params' \in ParamSet
    /\ batches' = Tail(batches)
    /\ step' = "zero_grad"
    /\ log' = Logged("optimizer_step")
    /\ UNCHANGED <<input_dim, device, training, train_dataset, test_dataset, epochs, epoch, pc,
                   exp_result, frame, returned, error, caller, calls>>
    /\ UNCHANGED outside_trace

NextTrain ==
    \/ To
    \/ RunTraining
    \/ StartEpoch
    \/ ZeroGrad
    \/ ForwardPass
    \/ LossStatement
    \/ Backward
    \/ OptimizerStep
    \/ CallValidate
    \/ TrainingLoss
    \/ TrainingAccuracy
    \/ TestingLoss
    \/ TestingAccuracy
    \/ ClassificationResults
    \/ Return

SpecTrain == InitTrain /\ [][NextTrain]_vars

---------------------------------------------------------------------------
(* Python values of the dataset layer.  A str is the sequence of its       *)
(* character codes; list.sort() orders ints by value and strs              *)
(* lexicographically.                                                      *)

LexLess(a, b) ==
    \E k \in 1 .. (Min(Len(a), Len(b)) + 1) :
        /\ \A i \in 1 .. (k - 1) : a[i] = b[i]
        /\ \/ k > Len(a) /\ k <= Len(b)
           \/ k <= Len(a) /\ k <= Len(b) /\ a[k] < b[k]

PyLess(a, b, kind) == IF kind = "int" THEN a < b ELSE LexLess(a, b)

RECURSIVE Insert(_, _, _)
Insert(x, sorted, kind) ==
    IF sorted = <<>> THEN <<x>>
    ELSE IF PyLess(x, Head(sorted), kind) THEN <<x>> \o sorted
    ELSE <<Head(sorted)>> \o Insert(x, Tail(sorted), kind)

(* Mutant: the list is left in the order unique() produced. *)
ListSort_skipped(list, kind) == list

(* Mutant: list.sort(reverse=True). *)
RECURSIVE InsertDescending(_, _, _)
InsertDescending(x, sorted, kind) ==
    IF sorted = <<>> THEN <<x>>
    ELSE IF PyLess(Head(sorted), x, kind) THEN <<x>> \o sorted
    ELSE <<Head(sorted)>> \o InsertDescending(x, Tail(sorted), kind)

RECURSIVE ListSort_reversed(_, _)
ListSort_reversed(list, kind) ==
    IF list = <<>> THEN <<>>
    ELSE InsertDescending(Head(list), ListSort_reversed(Tail(list), kind), kind)

RECURSIVE ListSort(_, _)
ListSort(list, kind) ==
    IF list = <<>> THEN <<>>
    ELSE Insert(Head(list), ListSort(Tail(list), kind), kind)

(* {value: i for i, value in enumerate(list)} *)
EnumerateDict(list) ==
    [v \in {list[i] : i \in 1 .. Len(list)} |->
        (CHOOSE i \in 1 .. Len(list) : list[i] = v /\ \A j \in (i + 1) .. Len(list) : list[j] # v) - 1]

---------------------------------------------------------------------------
(* polars.DataFrame: the column names in order, the dtype and the values   *)
(* of each column.  A float cell is a number of tenths.                    *)

Height(d) == IF d.columns = <<>> THEN 0 ELSE Len(d.data[d.columns[1]])

HasColumn(d, name) == \E j \in 1 .. Len(d.columns) : d.columns[j] = name

ColumnValues(d, name) == {d.data[name][i] : i \in 1 .. Len(d.data[name])}

(* Series.unique().to_list(): the distinct values, in no guaranteed order. *)
UniqueLists(values) ==
    {l \in [1 .. Cardinality(values) -> values] : \A i, j \in 1 .. Cardinality(values) : l[i] = l[j] => i = j}

ReplaceColumn(d, name, dict) ==
    [d EXCEPT !.data[name] = [i \in 1 .. Len(@) |-> dict[@[i]]]]

DropColumn(d, name) ==
    LET keep == {j \in 1 .. Len(d.columns) : d.columns[j] # name}
        pos(k) == CHOOSE j \in keep : Cardinality({i \in keep : i < j}) = k - 1
    IN  [columns |-> [k \in 1 .. Cardinality(keep) |-> d.columns[pos(k)]],
         dtypes |-> [n \in (DOMAIN d.dtypes) \ {name} |-> d.dtypes[n]],
         data |-> [n \in (DOMAIN d.data) \ {name} |-> d.data[n]]]

Row(d, idx) == [j \in 1 .. Len(d.columns) |-> d.data[d.columns[j]][idx]]

---------------------------------------------------------------------------
(* DataFrame.write_csv and polars.read_csv.  A file is its header and its  *)
(* lines, a line its fields, a field its characters.  Ints are written in  *)
(* decimal, floats in their shortest decimal form, which for a number of   *)
(* tenths is <int part>.<digit>; read_csv infers each column's dtype from  *)
(* its fields and parses them.                                             *)

DigitChars == <<"0", "1", "2", "3", "4", "5", "6", "7", "8", "9">>

RECURSIVE FormatDigits(_)
FormatDigits(n) ==
    IF n < 10 THEN <<DigitChars[n + 1]>>
    ELSE FormatDigits(n \div 10) \o <<DigitChars[(n % 10) + 1]>>

Abs(n) == IF n < 0 THEN -n ELSE n

FormatInt(n) == (IF n < 0 THEN <<"-">> ELSE <<>>) \o FormatDigits(Abs(n))

FormatFloat(v) ==
    (IF v < 0 THEN <<"-">> ELSE <<>>)
        \o FormatDigits(Abs(v) \div 10) \o <<".">> \o FormatDigits(Abs(v) % 10)

FormatCell(dtype, v) ==
    IF dtype = "Int64" THEN FormatInt(v)
    ELSE IF dtype \in {"Float32", "Float64"} THEN FormatFloat(v)
    ELSE v

write_csv(d) ==
    [header |-> d.columns,
     lines |-> [i \in 1 .. Height(d) |->
                  [j \in 1 .. Len(d.columns) |->
                     FormatCell(d.dtypes[d.columns[j]], d.data[d.columns[j]][i])]]]

IsDigit(c) == \E k \in 1 .. 10 : DigitChars[k] = c

DigitValue(c) == (CHOOSE k \in 1 .. 10 : DigitChars[k] = c) - 1

Unsigned(field) == IF field # <<>> /\ Head(field) = "-" THEN Tail(field) ELSE field

Sign(field) == IF field # <<>> /\ Head(field) = "-" THEN -1 ELSE 1

IsDigits(chars) == chars # <<>> /\ \A i \in 1 .. Len(chars) : IsDigit(chars[i])

RECURSIVE ParseDigits(_)
ParseDigits(chars) ==
    IF chars = <<>> THEN 0
    ELSE ParseDigits(SubSeq(chars, 1, Len(chars) - 1)) * 10 + DigitValue(chars[Len(chars)])

IsIntField(field) == IsDigits(Unsigned(field))

IsFloatField(field) ==
    LET u == Unsigned(field)
    IN  /\ Len(u) >= 3
        /\ u[Len(u) - 1] = "."
        /\ IsDigit(u[Len(u)])
        /\ IsDigits(SubSeq(u, 1, Len(u) - 2))

ParseInt(field) == Sign(field) * ParseDigits(Unsigned(field))

ParseFloat(field) ==
    LET u == Unsigned(field)
    IN  IF IsIntField(field) THEN ParseInt(field) * 10
        ELSE Sign(field) * (ParseDigits(SubSeq(u, 1, Len(u) - 2)) * 10 + DigitValue(u[Len(u)]))

InferDtype(fields) ==
    IF fields = <<>> THEN "String"
    ELSE IF \A i \in 1 .. Len(fields) : IsIntField(fields[i]) THEN "Int64"
    ELSE IF \A i \in 1 .. Len(fields) : IsIntField(fields[i]) \/ IsFloatField(fields[i])
         THEN "Float64"
    ELSE "String"

ParseCell(dtype, field) ==
    IF dtype = "Int64" THEN ParseInt(field)
    ELSE IF dtype = "Float64" THEN ParseFloat(field)
    ELSE field

read_csv(f) ==
    LET names == {f.header[j] : j \in 1 .. Len(f.header)}
        pos(n) == CHOOSE j \in 1 .. Len(f.header) : f.header[j] = n
        fields(n) == [i \in 1 .. Len(f.lines) |-> f.lines[i][pos(n)]]
    IN  [columns |-> f.header,
         dtypes |-> [n \in names |-> InferDtype(fields(n))],
         data |-> [n \in names |->
                     [i \in 1 .. Len(f.lines) |-> ParseCell(InferDtype(fields(n)), fields(n)[i])]]]

---------------------------------------------------------------------------
(* HumanChatBotDataset *)

(* __post_init__, given the order unique() listed the labels in. *)
should_apply_mappings(mappings) == \E k \in DOMAIN mappings : k # mappings[k]

post_init(d, unique_labels) ==
    IF ~HasColumn(d, "label")
    THEN [error |-> "AssertionError"]
    ELSE LET present_labels == ListSort(unique_labels, "int")
             mappings == EnumerateDict(present_labels)
             replaced == IF should_apply_mappings(mappings)
                         THEN ReplaceColumn(d, "label", mappings) ELSE d
         IN  [error |-> "none",
              data |-> IF HasColumn(replaced, "type") THEN DropColumn(replaced, "type")
                       ELSE replaced,
              n_non_feature_columns |-> 1,
              number_of_classes |-> Len(present_labels)]

(* drop_in_place works on the caller's frame when no new frame was made. *)
FrameAfterPostInit(d, unique_labels) ==
    IF HasColumn(d, "label") /\ HasColumn(d, "type")
       /\ ~should_apply_mappings(EnumerateDict(ListSort(unique_labels, "int")))
    THEN DropColumn(d, "type")
    ELSE d

find_classnum_mapping(d, unique_types) == EnumerateDict(ListSort(unique_types, "str"))

embedding_size(ds) == Len(ds.data.columns) - ds.n_non_feature_columns

DatasetLength(ds) == Height(ds.data)

getitem(ds, idx) ==
    [embedding |-> [k \in 1 .. embedding_size(ds) |->
                      Row(ds.data, idx)[k + ds.n_non_feature_columns]],
     label |-> ds.data.data["label"][idx]]

(* The frames a dataset is constructed from. *)
TypeValues == {<<1>>, <<2>>, <<1, 2>>}
LabelValues == {0, 1, 3}
FeatureValues == <<-5, 0, 12>>
FeatureNames == <<"f0", "f1">>

Vectors(width) == {[j \in 1 .. width |-> FeatureValues[((k + j) % 3) + 1]] : k \in 1 .. 2}

RowValues(width) == TypeValues \X LabelValues \X Vectors(width)

MakeFrame(has_type, width, rows) ==
    LET features == {FeatureNames[j] : j \in 1 .. width}
        names == (IF has_type THEN {"type"} ELSE {}) \cup {"label"} \cup features
    IN  [columns |-> (IF has_type THEN <<"type">> ELSE <<>>) \o <<"label">>
                        \o [j \in 1 .. width |-> FeatureNames[j]],
         dtypes |-> [n \in names |-> IF n = "type" THEN "String"
                                     ELSE IF n = "label" THEN "Int64" ELSE "Float32"],
         data |-> [n \in names |->
                     [i \in 1 .. Len(rows) |->
                        IF n = "type" THEN rows[i][1]
                        ELSE IF n = "label" THEN rows[i][2]
                        ELSE rows[i][3][CHOOSE j \in 1 .. width : FeatureNames[j] = n]]]]

InitDataset ==
    /\ \E has_type \in BOOLEAN, width \in 1 .. Len(FeatureNames), h \in 0 .. MaxRows :
          \E rows \in [1 .. h -> RowValues(width)] : df = MakeFrame(has_type, width, rows)
    /\ mapping = None /\ eager = None /\ file = None /\ loaded = None
    /\ IdleHarness /\ IdleLazy /\ IdleImage /\ IdleExtension

FindClassnumMapping ==
    /\ mapping = None
    /\ HasColumn(df, "type")
    /\ \E l \in UniqueLists(ColumnValues(df, "type")) :
         mapping' = <<[types |-> df.data["type"], dict |-> find_classnum_mapping(df, l)]>>
    /\ UNCHANGED <<df, eager, file, loaded, harness_vars, lazy_vars, image_vars, extension_vars>>

Construct ==
    /\ eager = None
    /\ \E l \in UniqueLists(ColumnValues(df, "label")) :
         /\ eager' = <<post_init(df, l)>>
         /\ df' = FrameAfterPostInit(df, l)
    /\ UNCHANGED <<mapping, file, loaded, harness_vars, lazy_vars, image_vars, extension_vars>>

Save ==
    /\ eager # None
    /\ file = None
    /\ file' = <<write_csv(eager[1].data)>>
    /\ UNCHANGED <<df, mapping, eager, loaded, harness_vars, lazy_vars, image_vars, extension_vars>>

Load ==
    /\ file # None
    /\ loaded = None
    /\ \E d \in {read_csv(file[1])} :
         \E l \in UniqueLists(ColumnValues(d, "label")) : loaded' = <<post_init(d, l)>>
    /\ UNCHANGED <<df, mapping, eager, file, harness_vars, lazy_vars, image_vars, extension_vars>>

NextDataset == FindClassnumMapping \/ Construct \/ Save \/ Load

SpecDataset == InitDataset /\ [][NextDataset]_vars

---------------------------------------------------------------------------
(* LazyHumanChatBotDataset.  The frame has the columns text and type; the  *)
(* embedder is a dependency of the dataset and not part of datasets.py.    *)

TextValues == {<<1>>, <<1, 2>>}

embed(text) == <<Len(text)>>

MakeRawFrame(rows) ==
    [columns |-> <<"text", "type">>,
     dtypes |-> [n \in {"text", "type"} |-> "String"],
     data |-> [n \in {"text", "type"} |->
                 [i \in 1 .. Len(rows) |-> IF n = "text" THEN rows[i][1] ELSE rows[i][2]]]]

ClassnumMappings == UNION {[S -> 0 .. 1] : S \in SUBSET TypeValues}

(* Mutant: the check of __post_init__ finds nothing missing. *)
missing_types_none(data, article_type_to_classnum) == {}

(* set(types_in_dataset) - set(self.article_type_to_classnum.keys()) *)
missing_types(data, article_type_to_classnum) ==
    ColumnValues(data, "type") \ DOMAIN article_type_to_classnum

lazy_post_init(data, article_type_to_classnum) ==
    IF missing_types(data, article_type_to_classnum) # {}
    THEN [error |-> "ValueError"]
    ELSE [error |-> "none", data |-> data,
          article_type_to_classnum |-> article_type_to_classnum]

get_class_num(ds, article_type) ==
    IF article_type \in DOMAIN ds.article_type_to_classnum
    THEN [error |-> "none", value |-> ds.article_type_to_classnum[article_type]]
    ELSE [error |-> "KeyError"]

(* __getitem__; idx counts the rows from 1. *)
lazy_getitem(ds, idx) ==
    LET text == ds.data.data["text"][idx]
        article_type == ds.data.data["type"][idx]
        label == get_class_num(ds, article_type)
    IN  IF label.error # "none" THEN [error |-> label.error]
        ELSE [error |-> "none", idx |-> idx, embedding |-> embed(text), label |-> label.value]

InitLazy ==
    /\ \E h \in 0 .. MaxRows, article_type_to_classnum \in ClassnumMappings :
          \E rows \in [1 .. h -> TextValues \X TypeValues] :
             lazy_args = [data |-> MakeRawFrame(rows),
                          article_type_to_classnum |-> article_type_to_classnum]
    /\ lazy = None /\ lazy_error = "none" /\ lazy_item = <<>>
    /\ IdleHarness /\ IdleDataset /\ IdleImage /\ IdleExtension

ConstructLazy ==
    /\ lazy = None
    /\ lazy_error = "none"
    /\ \E r \in {lazy_post_init(lazy_args.data, lazy_args.article_type_to_classnum)} :
         IF r.error # "none"
         THEN lazy_error' = r.error /\ UNCHANGED lazy
         ELSE lazy' = <<r>> /\ UNCHANGED lazy_error
    /\ UNCHANGED <<lazy_args, lazy_item, harness_vars, dataset_vars, image_vars, extension_vars>>

LazyGetItem ==
    /\ lazy # None
    /\ lazy_error = "none"
    /\ Len(lazy_item) < MaxItems
    /\ \E idx \in 1 .. Height(lazy[1].data) :
         \E r \in {lazy_getitem(lazy[1], idx)} :
            IF r.error # "none"
            THEN lazy_error' = r.error /\ UNCHANGED lazy_item
            ELSE lazy_item' = Append(lazy_item, r) /\ UNCHANGED lazy_error
    /\ UNCHANGED <<lazy_args, lazy, harness_vars, dataset_vars, image_vars, extension_vars>>

NextLazy == ConstructLazy \/ LazyGetItem

SpecLazy == InitLazy /\ [][NextLazy]_vars

---------------------------------------------------------------------------
(* get_embedding_as_image_tensor.  A tensor element is finite (an exact    *)
(* rational), NaN or an infinity, as IEEE division and multiplication      *)
(* produce them.                                                           *)

Finite(q) == [kind |-> "finite", value |-> q]
NaN == [kind |-> "nan"]
Inf(sign) == [kind |-> "inf", sign |-> sign]

Signum(n) == IF n > 0 THEN 1 ELSE IF n < 0 THEN -1 ELSE 0

(* a / b for finite integral elements a and b *)
torch_div(a, b) ==
    IF b = 0 THEN (IF a = 0 THEN NaN ELSE Inf(Signum(a)))
    ELSE Finite(Rat(a * Signum(b), b * Signum(b)))

FloatSign(x) == IF x.kind = "inf" THEN x.sign ELSE Signum(x.value[1])

torch_mul(x, y) ==
    IF x.kind = "nan" \/ y.kind = "nan" THEN NaN
    ELSE IF x.kind = "inf" \/ y.kind = "inf"
         THEN (IF FloatSign(x) * FloatSign(y) = 0 THEN NaN
               ELSE Inf(FloatSign(x) * FloatSign(y)))
    ELSE Finite(Rat(x.value[1] * y.value[1], x.value[2] * y.value[2]))

RECURSIVE TensorMin(_)
TensorMin(t) ==
    IF Len(t) = 1 THEN t[1]
    ELSE CHOOSE m \in {Min(Head(t), r) : r \in {TensorMin(Tail(t))}} : TRUE

RECURSIVE TensorMax(_)
TensorMax(t) ==
    IF Len(t) = 1 THEN t[1]
    ELSE CHOOSE m \in {IF Head(t) > r THEN Head(t) ELSE r : r \in {TensorMax(Tail(t))}} : TRUE

(* Mutant: embedding / (embedding.max() - embedding.min()) *)
Normalize_unshifted(t) ==
    [i \in 1 .. Len(t) |-> torch_div(t[i], TensorMax(t) - TensorMin(t))]

(* (embedding - embedding.min()) / (embedding.max() - embedding.min()) *)
Normalize(t) ==
    [i \in 1 .. Len(t) |-> torch_div(t[i] - TensorMin(t), TensorMax(t) - TensorMin(t))]

get_embedding_as_image_tensor(t) ==
    IF Len(t) = 0 THEN [error |-> "RuntimeError"]
    ELSE LET vector_size == Len(t)
             normalized == Normalize(t)
             cross_mult == [i \in 1 .. vector_size |-> [j \in 1 .. vector_size |->
                              torch_mul(torch_mul(normalized[i], normalized[j]),
                                        Finite(<<255, 1>>))]]
         IN  [error |-> "none", shape |-> <<1, vector_size, vector_size>>,
              value |-> <<cross_mult>>]

ElementValues == {-1, 0, 1, 3}

InitImage ==
    /\ embedding \in UNION {[1 .. n -> ElementValues] : n \in 0 .. MaxVec}
    /\ image = None
    /\ IdleHarness /\ IdleDataset /\ IdleLazy /\ IdleExtension

Project ==
    /\ image = None
    /\ image' = <<get_embedding_as_image_tensor(embedding)>>
    /\ UNCHANGED <<embedding, harness_vars, dataset_vars, lazy_vars, extension_vars>>

NextImage == Project

SpecImage == InitImage /\ [][NextImage]_vars

---------------------------------------------------------------------------
(* ImageByCrossMultiplicationDataset.  Rows and cache keys are counted     *)
(* from 1.  Resize is kept as the target shape and the image it was        *)
(* computed from.                                                          *)

DEFAULT_IMAGE_SHAPE == <<100, 100>>

resize_transform(img) ==
    [error |-> "none",
     shape |-> <<1, DEFAULT_IMAGE_SHAPE[1], DEFAULT_IMAGE_SHAPE[2]>>,
     resized |-> img.value]

(* The image __post_init__ caches and __getitem__ computes for a row. *)
ImageOfRow(obj, idx) ==
    LET projected == get_embedding_as_image_tensor(getitem(obj.human_chatbot_ds, idx).embedding)
    IN  IF obj.resize THEN resize_transform(projected) ELSE projected

(* The fields set before the precomputation loop. *)
image_ds_post_init(args) ==
    [human_chatbot_ds |-> args.human_chatbot_ds,
     resize |-> args.resize,
     precompute |-> args.precompute,
     cache |-> EmptyDict,
     image_height |-> IF args.resize THEN DEFAULT_IMAGE_SHAPE[1]
                      ELSE embedding_size(args.human_chatbot_ds),
     image_width |-> IF args.resize THEN DEFAULT_IMAGE_SHAPE[2]
                     ELSE embedding_size(args.human_chatbot_ds)]

(* Mutant: for i in range(len(self.human_chatbot_ds) - 1) *)
PrecomputeHasNext_short(i, n) == i < n

(* for i in tqdm(range(len(self.human_chatbot_ds))), i the next row *)
PrecomputeHasNext(i, n) == i <= n

image_ds_getitem(obj, idx) ==
    LET label == getitem(obj.human_chatbot_ds, idx).label
    IN  IF DOMAIN obj.cache # {}
        THEN (IF idx \in DOMAIN obj.cache
              THEN [error |-> "none", image |-> obj.cache[idx], label |-> label]
              ELSE [error |-> "KeyError"])
        ELSE [error |-> "none", image |-> ImageOfRow(obj, idx), label |-> label]

InitImageDs ==
    /\ \E width \in 1 .. Len(FeatureNames), h \in 0 .. MaxRows, resize \in BOOLEAN,
          precompute \in BOOLEAN :
          \E rows \in [1 .. h -> RowValues(width)] :
             \E d \in {MakeFrame(FALSE, width, rows)} :
                \E l \in UniqueLists(ColumnValues(d, "label")) :
                   image_ds_args = [human_chatbot_ds |-> post_init(d, l),
                                    resize |-> resize, precompute |-> precompute]
    /\ image_ds = None
    /\ image_ds_ctl = [pc |-> "new", i |-> 1, error |-> "none"]
    /\ image_item = None
    /\ IdleHarness /\ IdleDataset /\ IdleLazy /\ IdleImage /\ IdleTrace /\ IdleRaw /\ IdleExport /\ IdleAccuracy

(* The constructor up to the precomputation loop; without precompute it    *)
(* returns the object.                                                     *)
ConstructImageDs ==
    /\ image_ds_ctl.pc = "new"
    /\ image_ds' = <<image_ds_post_init(image_ds_args)>>
    /\ image_ds_ctl' = [image_ds_ctl EXCEPT
                          !.pc = IF image_ds_args.precompute THEN "precompute" ELSE "constructed"]
    /\ UNCHANGED <<image_ds_args, image_item, outside_imageds>>

(* One round of the loop: self.cache[i] = image. *)
Precompute ==
    /\ image_ds_ctl.pc = "precompute"
    /\ PrecomputeHasNext(image_ds_ctl.i, DatasetLength(image_ds[1].human_chatbot_ds))
    /\ \E img \in {ImageOfRow(image_ds[1], image_ds_ctl.i)} :
         image_ds' = <<[image_ds[1] EXCEPT !.cache =
                          [k \in (DOMAIN @) \cup {image_ds_ctl.i} |->
                             IF k = image_ds_ctl.i THEN img ELSE @[k]]]>>
    /\ image_ds_ctl' = [image_ds_ctl EXCEPT !.i = @ + 1]
    /\ UNCHANGED <<image_ds_args, image_item, outside_imageds>>

(* The loop is exhausted: the constructor returns the object. *)
PrecomputeDone ==
    /\ image_ds_ctl.pc = "precompute"
    /\ ~PrecomputeHasNext(image_ds_ctl.i, DatasetLength(image_ds[1].human_chatbot_ds))
    /\ image_ds_ctl' = [image_ds_ctl EXCEPT !.pc = "constructed"]
    /\ UNCHANGED <<image_ds_args, image_ds, image_item, outside_imageds>>

(* An exception inside the loop leaves the constructor: the caller gets    *)
(* no object.                                                              *)
PrecomputeInterrupted ==
    /\ image_ds_ctl.pc = "precompute"
    /\ image_ds_ctl' = [image_ds_ctl EXCEPT !.pc = "failed", !.error = "KeyboardInterrupt"]
    /\ UNCHANGED <<image_ds_args, image_ds, image_item, outside_imageds>>

ImageDsGetItem ==
    /\ image_ds_ctl.pc = "constructed"
    /\ \E idx \in 1 .. DatasetLength(image_ds[1].human_chatbot_ds) :
         \E r \in {image_ds_getitem(image_ds[1], idx)} :
            IF r.error # "none"
            THEN /\ image_ds_ctl' = [image_ds_ctl EXCEPT !.pc = "raised", !.error = r.error]
                 /\ UNCHANGED image_item
            ELSE /\ image_item' = <<[idx |-> idx, image |-> r.image, label |-> r.label]>>
                 /\ UNCHANGED image_ds_ctl
    /\ UNCHANGED <<image_ds_args, image_ds, outside_imageds>>

NextImageDs ==
    \/ ConstructImageDs
    \/ Precompute
    \/ PrecomputeDone
    \/ PrecomputeInterrupted
    \/ ImageDsGetItem

SpecImageDs == InitImageDs /\ [][NextImageDs]_vars

---------------------------------------------------------------------------
(* HumanChatBotDataset.from_raw_data and from_train_test_raw_data.  The    *)
(* raw data is a frame with the columns text and type.                     *)

(* torch.stack(all_tensors): the tensors as rows; it raises on no tensor. *)
torch_stack(all_tensors) ==
    IF all_tensors = <<>> THEN [error |-> "RuntimeError"]
    ELSE [error |-> "none", samples |-> Len(all_tensors), nfeatures |-> Len(all_tensors[1]),
          rows |-> all_tensors]

(* Mutant: label = index of the record instead of its type's class number. *)
RawLabel_by_index(article_type_to_classnum, article_type, index) == index - 1

(* label = article_type_to_classnum[article_type] *)
RawLabel(article_type_to_classnum, article_type, index) ==
    article_type_to_classnum[article_type]

(* from_raw_data, given the order unique() listed the types in: the texts  *)
(* embedded, and the dataset or the exception.                             *)
from_raw_data(data, unique_types) ==
    LET article_type_to_classnum == find_classnum_mapping(data, unique_types)
        n == Height(data)
        all_tensors == [i \in 1 .. n |-> embed(data.data["text"][i])]
        all_labels == [i \in 1 .. n |->
                         RawLabel(article_type_to_classnum, data.data["type"][i], i)]
        all_types == data.data["type"]
        embedded == data.data["text"]
        tensors_in_stack == torch_stack(all_tensors)
    IN  IF tensors_in_stack.error # "none"
        THEN [error |-> tensors_in_stack.error, calls |-> embedded]
        ELSE LET schema == [i \in 1 .. tensors_in_stack.nfeatures |-> FeatureNames[i]]
                 names == {"type", "label"} \cup Range(schema)
                 frame_built ==
                    [columns |-> <<"type", "label">> \o schema,
                     dtypes |-> [c \in names |-> IF c = "type" THEN "String"
                                                 ELSE IF c = "label" THEN "Int64"
                                                 ELSE "Float32"],
                     data |-> [c \in names |->
                                 IF c = "type" THEN all_types
                                 ELSE IF c = "label" THEN all_labels
                                 ELSE [i \in 1 .. n |->
                                         tensors_in_stack.rows[i]
                                            [CHOOSE j \in 1 .. Len(schema) : schema[j] = c]]]]
                 labels == CHOOSE l \in UniqueLists(ColumnValues(frame_built, "label")) : TRUE
             IN  [error |-> "none", calls |-> embedded, dataset |-> post_init(frame_built, labels)]

InitRaw ==
    /\ \E h \in 0 .. MaxRows, k \in 0 .. MaxRows :
          \E rows \in [1 .. h -> TextValues \X TypeValues], types \in [1 .. k -> TypeValues] :
             raw_args = [train |-> MakeRawFrame(rows),
                         test |-> MakeRawFrame([i \in 1 .. k |-> <<<<1>>, types[i]>>])]
    /\ embed_calls = <<>>
    /\ built = None
    /\ IdleHarness /\ IdleDataset /\ IdleLazy /\ IdleImage /\ IdleTrace /\ IdleImageDs /\ IdleExport /\ IdleAccuracy

(* HumanChatBotDataset.from_raw_data(train_data, embedder) *)
FromRawData ==
    /\ built = None
    /\ \E l \in UniqueLists(ColumnValues(raw_args.train, "type")) :
         \E r \in {from_raw_data(raw_args.train, l)} :
            /\ embed_calls' = embed_calls \o r.calls
            /\ built' = <<IF r.error # "none"
                          THEN [op |-> "from_raw_data", error |-> r.error]
                          ELSE [op |-> "from_raw_data", error |-> "none",
                                train |-> r.dataset]>>
    /\ UNCHANGED <<raw_args, outside_raw>>

(* HumanChatBotDataset.from_train_test_raw_data(train_data, test_data, embedder) *)
FromTrainTestRawData ==
    /\ built = None
    /\ \E l \in UniqueLists(ColumnValues(raw_args.train, "type")) :
         \E train \in {from_raw_data(raw_args.train, l)} :
            IF train.error # "none"
            THEN /\ embed_calls' = embed_calls \o train.calls
                 /\ built' = <<[op |-> "from_train_test_raw_data", error |-> train.error]>>
            ELSE \E m \in UniqueLists(ColumnValues(raw_args.test, "type")) :
                 \E test \in {from_raw_data(raw_args.test, m)} :
                    /\ embed_calls' = embed_calls \o train.calls \o test.calls
                    /\ built' = <<IF test.error # "none"
                                  THEN [op |-> "from_train_test_raw_data", error |-> test.error]
                                  ELSE [op |-> "from_train_test_raw_data", error |-> "none",
                                        train |-> train.dataset, test |-> test.dataset]>>
    /\ UNCHANGED <<raw_args, outside_raw>>

NextRaw == FromRawData \/ FromTrainTestRawData

SpecRaw == InitRaw /\ [][NextRaw]_vars

---------------------------------------------------------------------------
(* ImageByCrossMultiplicationDataset.convert_and_save.  A path under       *)
(* root_save_path is <<class directory>> or <<class directory, file>>;     *)
(* directories and files are named by the number they are made from.       *)

(* Mutant: os.makedirs(class_dir) without exist_ok. *)
makedirs_strict(dirs, class_dir, exist_ok) ==
    IF class_dir \in dirs THEN [error |-> "FileExistsError", dirs |-> dirs]
    ELSE [error |-> "none", dirs |-> dirs \cup {class_dir}]

(* os.makedirs(class_dir, exist_ok=True) *)
makedirs(dirs, class_dir, exist_ok) ==
    IF class_dir \in dirs /\ ~exist_ok THEN [error |-> "FileExistsError", dirs |-> dirs]
    ELSE [error |-> "none", dirs |-> dirs \cup {class_dir}]

(* The byte a conversion of NaN or an infinity to uint8 leaves: the        *)
(* conversion is undefined, the build decides; the two extreme bytes       *)
(* stand for the bytes it may pick.                                        *)
UnspecifiedBytes == {0, 255}

(* Tensor.mul(255).byte() on one element: truncation towards zero, then    *)
(* the low eight bits.                                                     *)
ToByte(x) ==
    LET n == x.value[1] * 255
        d == x.value[2]
        truncated == IF n >= 0 THEN n \div d ELSE -((-n) \div d)
    IN  truncated % 256

(* tensor_to_pil = transforms.ToPILImage() on a float tensor of shape      *)
(* (1, V, V): the images of mode L it can yield.                           *)
tensor_to_pil(img) ==
    LET V == img.shape[2]
        M == img.value[1]
        undefined == {ij \in (1 .. V) \X (1 .. V) : M[ij[1]][ij[2]].kind # "finite"}
    IN  { [mode |-> "L", size |-> <<V, V>>,
           pixels |-> [i \in 1 .. V |-> [j \in 1 .. V |->
                         IF <<i, j>> \in undefined THEN byte[<<i, j>>] ELSE ToByte(M[i][j])]]]
          : byte \in [undefined -> UnspecifiedBytes] }

(* generate_and_save: the results it can have; image.save(save_path)       *)
(* needs the directory.                                                    *)
generate_and_save(files, dirs, t, save_path) ==
    { IF <<save_path[1]>> \notin dirs THEN [error |-> "FileNotFoundError", files |-> files]
      ELSE [error |-> "none",
            files |-> [f \in (DOMAIN files) \cup {save_path} |->
                         IF f = save_path THEN pil ELSE files[f]]]
      : pil \in tensor_to_pil(get_embedding_as_image_tensor(t)) }

InitExport ==
    /\ \E width \in 1 .. Len(FeatureNames), h \in 0 .. MaxRows :
          \E rows \in [1 .. h -> RowValues(width)] :
             \E d \in {MakeFrame(FALSE, width, rows)} :
                \E l \in UniqueLists(ColumnValues(d, "label")) :
                   export_ds = post_init(d, l)
    /\ \E existing \in SUBSET (0 .. (MaxRows - 1)) :
          fs = [dirs |-> {<<c>> : c \in existing}, files |-> EmptyDict]
    /\ export_ctl = [pc |-> "makedirs", i |-> 0, error |-> "none"]
    /\ writes = <<>>
    /\ IdleHarness /\ IdleDataset /\ IdleLazy /\ IdleImage /\ IdleTrace /\ IdleImageDs
    /\ IdleRaw /\ IdleAccuracy

(* for i in range(n_classes): os.makedirs(class_dir, exist_ok=True) *)
MakeClassDir ==
    /\ export_ctl.pc = "makedirs"
    /\ IF export_ctl.i < export_ds.number_of_classes
       THEN \E r \in {makedirs(fs.dirs, <<export_ctl.i>>, TRUE)} :
              IF r.error # "none"
              THEN /\ export_ctl' = [export_ctl EXCEPT !.pc = "raised", !.error = r.error]
                   /\ UNCHANGED fs
              ELSE /\ fs' = [fs EXCEPT !.dirs = r.dirs]
                   /\ export_ctl' = [export_ctl EXCEPT !.i = @ + 1]
       ELSE /\ export_ctl' = [export_ctl EXCEPT !.pc = "save", !.i = 0]
            /\ UNCHANGED fs
    /\ UNCHANGED <<export_ds, writes, outside_export>>

(* for i in range(len(ds)): generate_and_save(embedding, save_path) *)
SaveImage ==
    /\ export_ctl.pc = "save"
    /\ IF export_ctl.i < DatasetLength(export_ds)
       THEN \E item \in {getitem(export_ds, export_ctl.i + 1)} :
            \E save_path \in {<<item.label, export_ctl.i>>} :
            \E r \in generate_and_save(fs.files, fs.dirs, item.embedding, save_path) :
              IF r.error # "none"
              THEN /\ export_ctl' = [export_ctl EXCEPT !.pc = "raised", !.error = r.error]
                   /\ UNCHANGED <<fs, writes>>
              ELSE /\ fs' = [fs EXCEPT !.files = r.files]
                   /\ writes' = Append(writes, save_path)
                   /\ export_ctl' = [export_ctl EXCEPT !.i = @ + 1]
       ELSE /\ export_ctl' = [export_ctl EXCEPT !.pc = "done"]
            /\ UNCHANGED <<fs, writes>>
    /\ UNCHANGED <<export_ds, outside_export>>

NextExport == MakeClassDir \/ SaveImage

SpecExport == InitExport /\ [][NextExport]_vars

---------------------------------------------------------------------------
(* NNBaseModel.compute_accuracy called on a loader of its own, shuffled or *)
(* not, over a split that may be empty or of another width than the model. *)

InitAccuracy ==
    /\ \E ds \in TestDatasets, shuffle \in BOOLEAN, p \in ParamSet, dim \in 1 .. MaxDim,
          dev \in {None} \cup {<<d>> : d \in Devices} :
          \E loader \in {DataLoader(ds, test_batch_size, shuffle)} :
             \E order \in Orders(loader) :
                accuracy_args = [loader |-> loader, order |-> order, p |-> p, dim |-> dim,
                                 dev |-> dev]
    /\ accuracy_out = None
    /\ IdleHarness /\ IdleDataset /\ IdleLazy /\ IdleImage /\ IdleTrace /\ IdleImageDs
    /\ IdleRaw /\ IdleExport

ComputeAccuracy ==
    /\ accuracy_out = None
    /\ accuracy_out' = <<compute_accuracy(accuracy_args.loader, accuracy_args.order,
                                          accuracy_args.p, accuracy_args.dim,
                                          accuracy_args.dev)>>
    /\ UNCHANGED <<accuracy_args, outside_accuracy>>

NextAccuracy == ComputeAccuracy

SpecAccuracy == InitAccuracy /\ [][NextAccuracy]_vars

---------------------------------------------------------------------------
(* Properties of the training harness *)

Evaluating ==
    pc \in {"training_loss", "training_accuracy", "testing_loss", "testing_accuracy",
            "classification_results"}

RaisedInEvaluation == pc = "raised" /\ error.at \in {"compute_loss", "compute_accuracy"}

Series ==
    {"training_losses", "training_accuracies", "testing_losses", "testing_accuracies",
     "training_classification_results", "testing_classification_results"}

RECURSIVE SumOver(_, _)
SumOver(f, keys) ==
    IF keys = {} THEN 0
    ELSE LET k == CHOOSE x \in keys : TRUE IN f[k] + SumOver(f, keys \ {k})

ConfusionTotal(make_up) ==
    SumOver([i \in DOMAIN make_up |-> SumOver(make_up[i], DOMAIN make_up[i])], DOMAIN make_up)

(* C1: once validate_after_epoch has been entered, the model is in         *)
(* inference mode only while the evaluation is running: when the call has  *)
(* returned, and when compute_loss or compute_accuracy has raised, the     *)
(* model is back in training mode.                                         *)
C1_TrainingModeRestored == (calls > 0 /\ ~Evaluating) => training = TRUE

(* C1 witness: the evaluation of the testing split raised after the        *)
(* training split had been evaluated, and the model is in training mode.   *)
C1_Witness ==
    /\ RaisedInEvaluation
    /\ Len(exp_result.training_accuracies) > 0
    /\ training = TRUE

(* C2: when k epochs have completed, each of the six series of the record  *)
(* has exactly k entries.                                                  *)
C2_SeriesHaveOneEntryPerEpoch ==
    exp_result # None => \A f \in Series : Len(exp_result[f]) = epoch

(* C3: every confusion breakdown compute_accuracy has returned, whether    *)
(* still held by the evaluation or appended to the record, sums to the     *)
(* number of samples of its split.                                         *)
C3_ConfusionSumsToSplitSize ==
    /\ exp_result # None =>
         /\ \A i \in 1 .. Len(exp_result.training_classification_results) :
              ConfusionTotal(exp_result.training_classification_results[i])
                = DatasetLen(train_dataset)
         /\ \A i \in 1 .. Len(exp_result.testing_classification_results) :
              ConfusionTotal(exp_result.testing_classification_results[i])
                = DatasetLen(test_dataset)
    /\ pc \in {"testing_loss", "testing_accuracy", "classification_results"}
         => ConfusionTotal(frame.tr_make_up) = DatasetLen(train_dataset)
    /\ pc = "classification_results"
         => ConfusionTotal(frame.test_make_up) = DatasetLen(test_dataset)

(* C3 witness: breakdowns of a split of several batches, the last one      *)
(* short, with wrong predictions among them, are in the record.            *)
C3_Witness ==
    /\ exp_result # None
    /\ Len(exp_result.testing_classification_results) > 0
    /\ DatasetLen(train_dataset) > training_batch_size
    /\ DatasetLen(test_dataset) > test_batch_size
    /\ Cardinality(DOMAIN exp_result.training_classification_results[1]) > 1

(* A batch fails in to(self.device) or in the forward pass. *)
BatchFailed == error.type \in {"AttributeError", "RuntimeError"}

Completed ==
    /\ pc = "done"
    /\ epoch = epochs
    /\ returned = <<exp_result>>
    /\ \A f \in Series : Len(exp_result[f]) = epochs

(* C9: a run over finite splits in which no batch fails does not stop      *)
(* before it has completed its epochs and returned the record.             *)
C9_StopsOnlyOnFailedBatch == pc = "raised" => BatchFailed

(* Termination on non-empty splits: a run either has a batch fail or       *)
(* reaches Completed, having run exactly epochs cycles and returned the    *)
(* record; with a non-empty testing split it stops early only on a failed  *)
(* batch.                                                                  *)
CompletesOnNonEmptySplits ==
    /\ [](pc = "done" => Completed)
    /\ [](DatasetLen(test_dataset) > 0 /\ pc = "raised" => BatchFailed)
    /\ <>(pc \in {"done", "raised"})

(* A run over splits of several batches completed its second epoch and     *)
(* returned the record.                                                    *)
CompletedSecondEpoch ==
    /\ Completed
    /\ epochs >= 2
    /\ DatasetLen(train_dataset) > training_batch_size
    /\ DatasetLen(test_dataset) > 0

(* C6: two evaluations in a row, with no training step in between, record  *)
(* the same losses, accuracies and confusion breakdowns.                   *)
C6_RepeatedEvaluationIdentical ==
    \A f \in Series : \A i \in 1 .. (Len(exp_result[f]) - 1) :
        exp_result[f][i] = exp_result[f][i + 1]

---------------------------------------------------------------------------
(* Properties of the dataset layer *)

(* C4: the class mapping of a type column with n distinct values maps them *)
(* onto 0 .. n-1 in sorted order, and a constructed dataset stores labels  *)
(* that span 0 .. number_of_classes-1 in the order of the raw labels.      *)
C4_DenseOrderPreservingMapping ==
    /\ mapping # None =>
         LET m == mapping[1].dict
             types == Range(mapping[1].types)
         IN  /\ DOMAIN m = types
             /\ {m[t] : t \in types} = 0 .. (Cardinality(types) - 1)
             /\ \A a, b \in types : LexLess(a, b) => m[a] < m[b]
    /\ eager # None =>
         LET raw == df.data["label"]
             stored == eager[1].data.data["label"]
         IN  /\ eager[1].number_of_classes = Cardinality(Range(raw))
             /\ Range(stored) = 0 .. (eager[1].number_of_classes - 1)
             /\ Len(stored) = Len(raw)
             /\ \A i, j \in 1 .. Len(raw) : raw[i] < raw[j] => stored[i] < stored[j]

(* C4 witness: the types "ab" and "b" were mapped to 0 and 1, and a        *)
(* dataset with the raw labels 3 and 1 was constructed.                    *)
C4_Witness ==
    /\ mapping # None
    /\ DOMAIN mapping[1].dict = {<<1, 2>>, <<2>>}
    /\ mapping[1].types[1] = <<2>>
    /\ eager # None
    /\ df.data["label"] = <<3, 1>>

(* C10: the dataset loaded from the file a dataset was saved to has the    *)
(* same length, labels, feature vectors, number_of_classes and             *)
(* embedding_size.                                                         *)
C10_SaveLoadRoundTrip ==
    loaded # None =>
        /\ eager[1].error = "none"
        /\ loaded[1].error = "none"
        /\ DatasetLength(loaded[1]) = DatasetLength(eager[1])
        /\ \A idx \in 1 .. DatasetLength(eager[1]) : getitem(loaded[1], idx) = getitem(eager[1], idx)
        /\ loaded[1].number_of_classes = eager[1].number_of_classes
        /\ embedding_size(loaded[1]) = embedding_size(eager[1])

(* C10 witness: a dataset of two rows and two classes, built from a frame  *)
(* with a type column and re-indexed labels, with a negative feature, was  *)
(* saved and loaded.                                                       *)
C10_Witness ==
    /\ loaded # None
    /\ DatasetLength(eager[1]) = 2
    /\ eager[1].number_of_classes = 2
    /\ df.data["label"] = <<3, 0>>
    /\ embedding_size(eager[1]) = 2
    /\ getitem(loaded[1], 1).embedding[1] < 0

---------------------------------------------------------------------------
(* Properties of the lazy dataset *)

Uncovered ==
    {lazy_args.data.data["type"][i] : i \in 1 .. Len(lazy_args.data.data["type"])}
        \ DOMAIN lazy_args.article_type_to_classnum

ConstructionAttempted == lazy # None \/ lazy_error # "none"

(* C5 as stated: constructing a lazy dataset over records with a type the  *)
(* supplied mapping does not cover raises MissingMappingError at           *)
(* construction, before any item access; no lazy dataset with an           *)
(* uncovered type exists and no item access fails for a missing mapping.   *)
C5_RaisesMissingMappingError ==
    /\ (ConstructionAttempted /\ Uncovered # {}) =>
          lazy = None /\ lazy_error = "MissingMappingError" /\ lazy_item = <<>>
    /\ lazy # None => Uncovered = {}
    /\ lazy_error # "KeyError"

(* C5 amended: the error raised at construction is a ValueError; the rest  *)
(* of the claim stands.                                                    *)
C5_RaisesValueError ==
    /\ (ConstructionAttempted /\ Uncovered # {}) =>
          lazy = None /\ lazy_error = "ValueError" /\ lazy_item = <<>>
    /\ lazy # None => Uncovered = {}
    /\ lazy_error # "KeyError"

(* C5 witness: construction over two records, one of a type the mapping    *)
(* covers and one of a type it does not cover, raised.                     *)
C5_Witness ==
    /\ lazy_error = "ValueError"
    /\ lazy = None
    /\ Len(lazy_args.data.data["type"]) = 2
    /\ lazy_args.data.data["type"][1] \in DOMAIN lazy_args.article_type_to_classnum
    /\ lazy_args.data.data["type"][2] \notin DOMAIN lazy_args.article_type_to_classnum

---------------------------------------------------------------------------
(* Properties of the image projection *)

Lowest == CHOOSE m \in Range(embedding) : \A x \in Range(embedding) : m <= x
Highest == CHOOSE m \in Range(embedding) : \A x \in Range(embedding) : m >= x

Projected == image # None /\ Len(embedding) > 0

(* C7: the projection of a constant vector has no NaN and no Inf entry.    *)
C7_ConstantVectorHasNoNaN ==
    (Projected /\ Highest = Lowest) =>
        /\ image[1].error = "none"
        /\ \A i, j \in 1 .. Len(embedding) : image[1].value[1][i][j].kind = "finite"

(* C8: the projection of a vector of length V with max # min is a V x V    *)
(* matrix M, symmetric, with every entry in [0, 255] and                   *)
(* M[i][j] = 255 * n_i * n_j where n_i = (x_i - min) / (max - min).        *)
C8_SymmetricScaledOuterProduct ==
    (Projected /\ Highest # Lowest) =>
        LET V == Len(embedding)
            M == image[1].value[1]
            range == Highest - Lowest
        IN  /\ image[1].error = "none"
            /\ image[1].shape = <<1, V, V>>
            /\ DOMAIN M = 1 .. V
            /\ \A i \in 1 .. V : DOMAIN M[i] = 1 .. V
            /\ \A i, j \in 1 .. V :
                 /\ M[i][j] = M[j][i]
                 /\ M[i][j].kind = "finite"
                 /\ M[i][j].value[2] > 0
                 /\ 0 <= M[i][j].value[1]
                 /\ M[i][j].value[1] <= 255 * M[i][j].value[2]
                 /\ M[i][j].value[1] * range * range
                      = 255 * (embedding[i] - Lowest) * (embedding[j] - Lowest) * M[i][j].value[2]

(* C8 witness: a vector of three different elements, one negative, whose   *)
(* image has an entry strictly between 0 and 255.                          *)
C8_Witness ==
    /\ Projected
    /\ embedding = <<3, -1, 0>>
    /\ image[1].value[1][1][3] = Finite(<<255, 4>>)

---------------------------------------------------------------------------
(* Further properties of the training harness *)

(* C11: while an evaluation still has a loss, an accuracy or a breakdown   *)
(* to compute, and when it has raised, the record is as it was when        *)
(* validate_after_epoch was entered: each series holds one entry per       *)
(* earlier call.                                                           *)
C11_RecordUnchangedWhileEvaluating ==
    (pc \in {"training_loss", "training_accuracy", "testing_loss", "testing_accuracy"}
        \/ RaisedInEvaluation)
      => \A f \in Series : Len(exp_result[f]) = calls - 1

RECURSIVE Flatten(_)
Flatten(seqs) == IF seqs = <<>> THEN <<>> ELSE Head(seqs) \o Flatten(Tail(seqs))

Occurrences(v, seq) == Cardinality({i \in 1 .. Len(seq) : seq[i] = v})

SamePopulation(a, b) ==
    /\ Len(a) = Len(b)
    /\ \A v \in Range(a) \cup Range(b) : Occurrences(v, a) = Occurrences(v, b)

StepsOf(op) == SelectSeq(log, LAMBDA e : e.op = op)

StepBatches == [k \in 1 .. Len(StepsOf("optimizer_step")) |-> StepsOf("optimizer_step")[k].batch]

LoggedEpoch == IF pc \in {"for_epoch", "done"} THEN epoch - 1 ELSE epoch

(* C12: the statements of an epoch run batch after batch, five per         *)
(* mini-batch in the order zero_grad, forward, loss, backward,             *)
(* optimizer_step, so one optimizer step per mini-batch; a mini-batch has  *)
(* at most 32 samples; and when the evaluation of the epoch has begun,     *)
(* every training sample has been in exactly one mini-batch.               *)
C12_BatchesInOrderOneStepEach ==
    /\ \A k \in 1 .. Len(log) :
         /\ log[k].op = Ops[((k - 1) % 5) + 1]
         /\ log[k].index = ((k - 1) \div 5) + 1
         /\ log[k].epoch = LoggedEpoch
         /\ Len(log[k].batch) \in 1 .. 32
         /\ (k - 1) % 5 # 0 => log[k].batch = log[k - 1].batch
    /\ (Evaluating \/ RaisedInEvaluation \/ (pc \in {"for_epoch", "done"} /\ epoch > 0)) =>
         /\ Len(log) = 5 * Len(StepBatches)
         /\ SamePopulation(Flatten(StepBatches), train_dataset.rows)

(* C12 witness: the evaluation of the second epoch has begun after two     *)
(* mini-batches, of 32 samples and of 1 sample.                            *)
C12_Witness ==
    /\ pc = "training_loss"
    /\ epoch = 1
    /\ Len(log) = 10
    /\ Len(log[5].batch) = 32
    /\ Len(log[10].batch) = 1

---------------------------------------------------------------------------
(* Properties of the image dataset *)

ImageDsConstructed == image_ds_ctl # None /\ image_ds_ctl.pc \in {"constructed", "raised"}

(* C13: the cache of an image dataset the constructor has returned is      *)
(* empty or holds every row, and no item access fails on a missing key;    *)
(* a constructor interrupted in its precomputation returns no dataset.     *)
C13_CacheEmptyOrFull ==
    /\ ImageDsConstructed =>
         \/ DOMAIN image_ds[1].cache = {}
         \/ DOMAIN image_ds[1].cache = 1 .. DatasetLength(image_ds[1].human_chatbot_ds)
    /\ image_ds_ctl # None => image_ds_ctl.error # "KeyError"
    /\ (image_ds_ctl # None /\ image_ds_ctl.pc = "failed") => image_item = None

(* C13 witness: an item of a dataset of two rows was served from the       *)
(* cache the precomputation filled.                                        *)
C13_Witness ==
    /\ ImageDsConstructed
    /\ image_ds_args.precompute
    /\ DOMAIN image_ds[1].cache = 1 .. 2
    /\ image_item # None
    /\ image_item[1].idx = 2
    /\ image_item[1].image = image_ds[1].cache[2]

---------------------------------------------------------------------------
(* Properties of from_raw_data and from_train_test_raw_data *)

(* The class number of a type: its rank among the distinct types. *)
ClassRank(type, types) == Cardinality({t \in Range(types) : LexLess(t, type)})

EmbedderWidth == Len(embed(<<1>>))

RowsAsEmbedded(ds, data) ==
    /\ DatasetLength(ds) = Height(data)
    /\ embedding_size(ds) = EmbedderWidth
    /\ \A i \in 1 .. Height(data) :
         /\ getitem(ds, i).label = ClassRank(data.data["type"][i], data.data["type"])
         /\ getitem(ds, i).embedding = embed(data.data["text"][i])

(* C14: from_raw_data on n records has called the embedder once per        *)
(* record, in order, and returns a dataset of n rows, row i with the class *)
(* number of record i's type as label and the embedding of its text as     *)
(* features, of the embedder's width.                                      *)
C14_FromRawDataOneRowPerRecord ==
    (built # None /\ built[1].op = "from_raw_data") =>
        /\ built[1].error = "none"
        /\ embed_calls = raw_args.train.data["text"]
        /\ RowsAsEmbedded(built[1].train, raw_args.train)

(* The same for one record or more, where torch.stack does not raise. *)
FromRawDataOnRecords ==
    (built # None /\ built[1].op = "from_raw_data" /\ Height(raw_args.train) > 0) =>
        /\ built[1].error = "none"
        /\ embed_calls = raw_args.train.data["text"]
        /\ RowsAsEmbedded(built[1].train, raw_args.train)

(* C16: a type that occurs in both splits has the same label in the train  *)
(* dataset and in the test dataset from_train_test_raw_data returns.       *)
C16_SharedTypesSameLabel ==
    (built # None /\ built[1].op = "from_train_test_raw_data" /\ built[1].error = "none") =>
        \A i \in 1 .. Height(raw_args.train), j \in 1 .. Height(raw_args.test) :
            raw_args.train.data["type"][i] = raw_args.test.data["type"][j]
              => getitem(built[1].train, i).label = getitem(built[1].test, j).label

---------------------------------------------------------------------------
(* Properties of convert_and_save *)

(* C15: convert_and_save raises nothing, whichever class directories       *)
(* exist beforehand; every file it writes goes into a class directory      *)
(* that exists at the write; and when it is done it has written exactly    *)
(* one file per sample, sample i to <label of i>/<i>.png.                  *)
C15_OneFilePerSampleInClassDir ==
    /\ export_ctl.pc # "raised" /\ export_ctl.error = "none"
    /\ \A k \in 1 .. Len(writes) :
         /\ <<writes[k][1]>> \in fs.dirs
         /\ writes[k] = <<export_ds.data.data["label"][k], k - 1>>
         /\ writes[k] \in DOMAIN fs.files
    /\ export_ctl.pc = "done" =>
         /\ Len(writes) = Height(export_ds.data)
         /\ Cardinality(DOMAIN fs.files) = Height(export_ds.data)

(* C15 witness: two samples of different classes were written, the         *)
(* directory of class 1 having existed beforehand.                         *)
C15_Witness ==
    /\ export_ctl.pc = "done"
    /\ writes = <<<<1, 0>>, <<0, 1>>>>
    /\ fs.dirs = {<<0>>, <<1>>}

---------------------------------------------------------------------------
(* Properties of compute_accuracy *)

Diagonal(make_up) ==
    SumOver([i \in DOMAIN make_up |-> IF i \in DOMAIN make_up[i] THEN make_up[i][i] ELSE 0],
            DOMAIN make_up)

AccuracyReturned == accuracy_out # None /\ accuracy_out[1].error = "none"

(* C17: what compute_accuracy returns over a non-empty split: correct is   *)
(* the sum of the diagonal of the confusion breakdown, total_items is the  *)
(* size of the split, and accuracy is correct / total_items, between 0     *)
(* and 1.                                                                  *)
C17_AccuracyIsDiagonalOverSplitSize ==
    (AccuracyReturned /\ Len(accuracy_args.loader.dataset.rows) > 0) =>
        LET r == accuracy_out[1].value
            n == Len(accuracy_args.loader.dataset.rows)
        IN  /\ r.correct = Diagonal(r.make_up)
            /\ r.total_items = n
            /\ r.accuracy[1] * n = r.correct * r.accuracy[2]
            /\ r.accuracy[2] > 0
            /\ 0 <= r.accuracy[1] /\ r.accuracy[1] <= r.accuracy[2]

(* C17 witness: a split of two batches in shuffled order, some samples     *)
(* predicted right and some wrong.                                         *)
C17_Witness ==
    /\ AccuracyReturned
    /\ Len(accuracy_args.loader.dataset.rows) > test_batch_size
    /\ accuracy_args.order[1] # 1
    /\ accuracy_out[1].value.correct > 1
    /\ accuracy_out[1].value.correct < accuracy_out[1].value.total_items

=============================================================================
